---------------------------- MODULE Spec2Model ----------------------------
(***************************************************************************)
(* Model of the import path of mt_signal_search:                           *)
(*   io_importers/pdf_importers.py  (normalizer, SimplePDFProcessor)       *)
(*   io_importers/csv_importers.py  (normalizer, CSVSignalImporter)        *)
(*   ui/async_workers.py            (ImportCSVWorker, ImportPDFWorker)     *)
(*   ui/main_window.py              (progress dialog, confirmation)        *)
(*   repositories/sqlite_impl.py    (SQLiteSignalRepository)               *)
(*                                                                         *)
(* A string is a sequence of characters; a character is written as a short *)
(* TLA+ string.  ASCII characters stand for themselves, the others are     *)
(* named:                                                                  *)
(*   "NL" U+000A   "ISP" U+3000 ideographic space                          *)
(*   "OR" U+2228   "FV" U+FF36   "FCARET" U+FF3E   "FPLUS" U+FF0B          *)
(*   "FLP" U+FF08  "FRP" U+FF09  "FCOLON" U+FF1A   "FUS" U+FF3F            *)
(*   "MINUS" U+2212  "EN" U+2013  "HBAR" U+2015  "KATA" U+30FC             *)
(*   "-" U+002D   "HEAVY" U+2796   "EM" U+2014                             *)
(*   "TILDE" U+0303 combining tilde, "vT" U+1E7D, "VT" U+1E7C, "AT" U+00C3 *)
(*   "d" a CJK letter of a description, "#" a noise character              *)
(*   "MSG" the fixed text of the parenthesis warning, "PH" the fixed       *)
(*   placeholder description "(OCR...)".                                   *)
(***************************************************************************)
EXTENDS Integers, Sequences, FiniteSets, TLC

VARIABLES
  \* SimplePDFProcessor.process: the document and the OCR loop
  pages,          \* the page texts the OCR backend yields for the document
  ocr_ok,         \* pdf2image and pytesseract can be imported
  pc,             \* "import", "ocr", "parse", "lines", "done", "raised";
                  \* "idle" outside a call
  page_i,         \* number of pages passed by the OCR loop
  texts,          \* texts
  polls,          \* number of calls of cancel_cb in this call of process
  cancelled,      \* cancel_cb has returned True in this call
  progress,       \* the values passed to progress_cb in this call
  \* the line loop
  lines,          \* lines
  idx,            \* number of lines the loop has passed
  signals, seen, current_q, current_desc, buf, paren_balance,
  \* the fields of the processor
  logic_blocks, warnings,
  \* history of the calls on this processor
  run,            \* number of the call of process on the instance
  prev,           \* texts and results of the call before this one
  start_blocks, start_warnings,   \* the fields when the call started
  \* the normalizers applied to one string
  n_pc, n_in, n_out, n_twice, n_csv,
  \* CSVSignalImporter.import_file
  c_rows,         \* the data rows of the file: signal_id and logic_expr cells
  c_pc,           \* "open", "rows", "end", "done", "raised"; "idle" outside a call
  c_i,            \* number of rows the loop has passed
  c_count,        \* count
  c_warnings,     \* self.warnings
  c_calls,        \* the calls made on the repository, in order
  c_polls,        \* number of calls of cancel_cb
  c_cancelled,    \* cancel_cb has returned True
  c_progress,     \* the values passed to progress_cb
  \* ImportCSVWorker / ImportPDFWorker and the window that owns them
  w_kind,         \* "csv" or "pdf"
  w_units,        \* rows of the file / pages of the document
  w_pc,           \* position of run: "ready", "import", "confirm", "save",
                  \* "boxsave", "finish", "returned", "escaped"; "idle"
  w_stage,        \* the importer run is in: "csv", "sig" or "box"
  w_left,         \* units the importer has not passed yet
  w_cancel,       \* self._cancel
  w_pending,      \* a call of the slot cancel is queued for the worker thread
  w_decision,     \* self._decision: "none", "yes", "no"
  w_dialog,       \* the progress dialog: "none", "open", "hidden", "closed"
  w_emitted,      \* the signals run has emitted, progress left out
  w_polled_true,  \* cancel_cb has returned True to an importer in this run
  w_requested,    \* the user has cancelled while run was executing
  w_signals,      \* records of signals not saved yet
  w_conns,        \* records of conns not saved yet
  w_warnings,     \* len(self._warnings)
  \* the database file of SQLiteSignalRepository
  r_db,           \* the table signals: signal_id -> row
  r_given,        \* signal_id -> the signal a caller last passed to add_signal
  r_opens         \* constructions of SQLiteSignalRepository on the file so far

procVars == <<pages, ocr_ok, pc, page_i, texts, polls, cancelled, progress, lines, idx,
              signals, seen, current_q, current_desc, buf, paren_balance,
              logic_blocks, warnings, run, prev, start_blocks, start_warnings>>
normVars == <<n_pc, n_in, n_out, n_twice, n_csv>>
csvVars == <<c_rows, c_pc, c_i, c_count, c_warnings, c_calls, c_polls, c_cancelled,
             c_progress>>
workerVars == <<w_kind, w_units, w_pc, w_stage, w_left, w_cancel, w_pending,
                w_decision, w_dialog, w_emitted, w_polled_true, w_requested,
                w_signals, w_conns, w_warnings>>
repoVars == <<r_db, r_given, r_opens>>
vars == <<procVars, normVars, csvVars, workerVars, repoVars>>

-----------------------------------------------------------------------------
(* Characters and the library functions of str / unicodedata               *)

\* str.isspace for the characters of the model
IsSpace(c) == c \in {" ", "NL", "ISP"}

\* compatibility decomposition of one character
nfkc_char(c) ==
  CASE c = "ISP"    -> " "
    [] c = "FV"     -> "V"
    [] c = "FCARET" -> "^"
    [] c = "FPLUS"  -> "+"
    [] c = "FLP"    -> "("
    [] c = "FRP"    -> ")"
    [] c = "FCOLON" -> ":"
    [] c = "FUS"    -> "_"
    [] OTHER        -> c

\* canonical composition of a starter with a following combining tilde
nfkc_pair(c) ==
  CASE c = "v" -> "vT"
    [] c = "V" -> "VT"
    [] c = "A" -> "AT"
    [] OTHER   -> "none"

\* canonical composition: a tilde that follows a composable starter is
\* absorbed into it
nfkc_compose(t) ==
  LET absorbed(i) == t[i] = "TILDE" /\ i > 1 /\ nfkc_pair(t[i - 1]) # "none"
      marked == [i \in 1..Len(t) |->
                   IF absorbed(i) THEN "none"
                   ELSE IF i < Len(t) /\ absorbed(i + 1) THEN nfkc_pair(t[i])
                   ELSE t[i]]
  IN  SelectSeq(marked, LAMBDA c : c # "none")

\* unicodedata.normalize("NFKC", s)
nfkc(s) == nfkc_compose([i \in 1..Len(s) |-> nfkc_char(s[i])])

Min(S) == CHOOSE x \in S : \A y \in S : x <= y
Max(S) == CHOOSE x \in S : \A y \in S : x >= y

\* the k-th smallest element of a set of numbers
Nth(S, k) == CHOOSE x \in S : Cardinality({y \in S : y < x}) = k - 1

\* str.strip()
strip(s) ==
  LET ns == {i \in 1..Len(s) : ~IsSpace(s[i])}
  IN  IF ns = {} THEN <<>> ELSE SubSeq(s, Min(ns), Max(ns))

\* str.lstrip()
lstrip(s) ==
  LET ns == {i \in 1..Len(s) : ~IsSpace(s[i])}
  IN  IF ns = {} THEN <<>> ELSE SubSeq(s, Min(ns), Len(s))

\* str.replace(old, new) for one-character old and new
replace(s, old, new) == [i \in 1..Len(s) |-> IF s[i] = old THEN new ELSE s[i]]

\* str.upper()
upper(s) ==
  [i \in 1..Len(s) |-> CASE s[i] = "v"  -> "V"
                         [] s[i] = "vT" -> "VT"
                         [] OTHER       -> s[i]]

\* str.split(): the maximal runs of non-whitespace characters
split(s) ==
  LET n      == Len(s)
      starts == {i \in 1..n : ~IsSpace(s[i]) /\ (i = 1 \/ IsSpace(s[i - 1]))}
      ends   == {i \in 1..n : ~IsSpace(s[i]) /\ (i = n \/ IsSpace(s[i + 1]))}
  IN  [k \in 1..Cardinality(starts) |-> SubSeq(s, Nth(starts, k), Nth(ends, k))]

\* sep.join(parts)
RECURSIVE join_from(_, _, _)
join_from(sep, parts, i) ==
  IF i > Len(parts) THEN <<>>
  ELSE IF i = Len(parts) THEN parts[i]
  ELSE parts[i] \o sep \o join_from(sep, parts, i + 1)

join(sep, parts) == join_from(sep, parts, 1)

\* str.splitlines(): no empty last line after a final line break
splitlines(s) ==
  LET n    == Len(s)
      brk  == {i \in 1..n : s[i] = "NL"}
      k    == Cardinality(brk)
      from(j) == IF j = 1 THEN 1 ELSE Nth(brk, j - 1) + 1
      to(j)   == IF j = k + 1 THEN n ELSE Nth(brk, j) - 1
      count   == IF n = 0 \/ s[n] = "NL" THEN k ELSE k + 1
  IN  [j \in 1..count |-> SubSeq(s, from(j), to(j))]

-----------------------------------------------------------------------------
(* pdf_importers.py: the normalizer                                         *)

norm_line(s) == strip(nfkc(s))

\* _normalize_id without upper()
normalize_id_as_read(s) == norm_line(s)

\* _normalize_id: NFKC, strip, upper
normalize_id(s) == upper(norm_line(s))

\* norm_ops without the replacement of the katakana long-vowel mark
norm_ops_no_katakana(s) ==
  LET t0 == strip(nfkc(s))
      t1 == replace(replace(replace(t0, "OR", "v"), "FV", "v"), "V", "v")
      t2 == replace(replace(t1, "FCARET", "^"), "^", "^")
      t3 == replace(replace(replace(replace(replace(t2,
              "MINUS", "EM"), "EN", "EM"), "HBAR", "EM"),
              "-", "EM"), "HEAVY", "EM")
      t4 == replace(t3, "FPLUS", "+")
  IN  join(<<" ">>, split(t4))

norm_ops(s) ==
  LET t0 == norm_line(s)
      t1 == replace(replace(replace(t0, "OR", "v"), "FV", "v"), "V", "v")
      t2 == replace(replace(t1, "FCARET", "^"), "^", "^")
      t3 == replace(replace(replace(replace(replace(replace(t2,
              "MINUS", "EM"), "EN", "EM"), "HBAR", "EM"), "KATA", "EM"),
              "-", "EM"), "HEAVY", "EM")
      t4 == replace(t3, "FPLUS", "+")
  IN  join(<<" ">>, split(t4))

paren_delta(s) ==
  Cardinality({i \in 1..Len(s) : s[i] \in {"(", "FLP"}})
    - Cardinality({i \in 1..Len(s) : s[i] \in {")", "FRP"}})

(* csv_importers.py: the normalizer of the delimited-text importer          *)

norm(s) == strip(nfkc(s))

\* csv_importers._norm_id
norm_id(s) == upper(norm(s))

norm_expr(s) ==
  LET t0 == norm(s)
      t1 == replace(replace(replace(t0, "OR", "v"), "FV", "v"), "V", "v")
      t2 == replace(t1, "FCARET", "^")
      t3 == replace(replace(replace(replace(replace(t2,
              "MINUS", "EM"), "EN", "EM"), "HBAR", "EM"), "KATA", "EM"),
              "-", "EM")
      t4 == replace(t3, "FPLUS", "+")
  IN  join(<<" ">>, split(t4))

-----------------------------------------------------------------------------
(* pdf_importers.py: the three line patterns of SimplePDFProcessor.process  *)

SpaceChars == {" ", "NL", "ISP"}
AlphaChars == {"Q", "A", "B", "v", "V"}
AlnumChars == AlphaChars \cup {"1", "2"}
SepChars   == {":", "FCOLON", "-", "EN", "EM"}
ExprChars  == AlnumChars \cup SpaceChars \cup
              {"(", ")", "FLP", "FRP", "_", "FUS", "v", "^", "!", "FPLUS", "+", "EM", "-"}

\* number of consecutive characters of s, from index from on, that are in S
RunLen(s, from, S) ==
  LET stop == {j \in from..Len(s) : s[j] \notin S}
  IN  IF stop = {} THEN (IF from > Len(s) THEN 0 ELSE Len(s) - from + 1)
      ELSE Min(stop) - from

AllIn(s, S) == \A i \in 1..Len(s) : s[i] \in S

NoMatch == [ok |-> FALSE, id |-> <<>>, rest |-> <<>>]

\* eq_re = ^\s*([A-Za-z]{1,3})\s*([0-9A-Za-z]+)\s*=\s*(.+)$
\* id is group(1) followed by group(2), rest is group(3)
eq_re(raw) ==
  LET eqs == {i \in 1..Len(raw) : raw[i] = "="}
  IN  IF eqs = {} \/ "NL" \in {raw[i] : i \in 1..Len(raw)} THEN NoMatch
      ELSE
        LET e    == Min(eqs)
            w    == split(SubSeq(raw, 1, e - 1))
            rhs  == SubSeq(raw, e + 1, Len(raw))
            one  == /\ Len(w) = 1
                    /\ AllIn(w[1], AlnumChars)
                    /\ Len(w[1]) >= 2
                    /\ w[1][1] \in AlphaChars
            two  == /\ Len(w) = 2
                    /\ AllIn(w[1], AlphaChars)
                    /\ Len(w[1]) <= 3
                    /\ AllIn(w[2], AlnumChars)
        IN  IF (one \/ two) /\ rhs # <<>>
            THEN [ok   |-> TRUE,
                  id   |-> join(<<>>, w),
                  rest |-> IF lstrip(rhs) # <<>> THEN lstrip(rhs)
                           ELSE <<rhs[Len(rhs)]>>]
            ELSE NoMatch

\* qhead_re = ^\s*(Q[0-9A-Za-z]+)\s*[:<FCOLON>\-<EN><EM>]*\s*(.+)$
\* id is group(1), rest is group(2); the greedy groups give back one
\* character when nothing is left for (.+)
qhead_re(raw) ==
  LET s  == lstrip(raw)
      n  == Len(s)
      m  == RunLen(s, 2, AlnumChars)
      a  == 1 + m
      b  == a + RunLen(s, a + 1, SpaceChars)
      c  == b + RunLen(s, b + 1, SepChars)
      d  == c + RunLen(s, c + 1, SpaceChars)
  IN  IF n = 0 \/ "NL" \in {s[i] : i \in 1..n} THEN NoMatch
      ELSE IF s[1] # "Q" \/ m = 0 THEN NoMatch
      ELSE IF d < n THEN [ok |-> TRUE, id |-> SubSeq(s, 1, a), rest |-> SubSeq(s, d + 1, n)]
      ELSE IF n >= 3
           THEN [ok   |-> TRUE,
                 id   |-> IF a = n THEN SubSeq(s, 1, n - 1) ELSE SubSeq(s, 1, a),
                 rest |-> <<s[n]>>]
           ELSE NoMatch

\* expr_re = ^[0-9A-Za-z()<FLP><FRP>_<FUS>v^!<FPLUS>+<EM>\-\s]+$
expr_re(raw) == raw # <<>> /\ AllIn(raw, ExprChars)

-----------------------------------------------------------------------------
(* pdf_importers.py: the line loop of SimplePDFProcessor.process           *)
(* The state of the loop is a record st:                                    *)
(*   signals, seen, current_q, current_desc, buf, paren_balance  (locals)   *)
(*   logic_blocks, warnings                      (fields of the processor)  *)
(* None is written <<>> (an id is never the empty string).                  *)

PreviewLen == 60

Placeholder == <<"PH">>

SignalInfo(sid, desc) ==
  [signal_id |-> sid, signal_type |-> "OUTPUT", description |-> desc,
   from_box |-> <<>>, via_boxes |-> <<>>, to_box |-> <<>>,
   program_address |-> sid, logic_group |-> <<>>]

\* dict assignment d[k] = v
put(d, k, v) == [x \in DOMAIN d \cup {k} |-> IF x = k THEN v ELSE d[x]]

\* f"{current_q}: <MSG> '{expr[:60]}...'"
warning_text(q, expr) ==
  q \o <<":", " ", "MSG", " ", "'">>
    \o SubSeq(expr, 1, IF Len(expr) < PreviewLen THEN Len(expr) ELSE PreviewLen)
    \o <<".", ".", ".", "'">>

\* [x.strip() for x in buf if x.strip()]
stripped_parts(b) ==
  SelectSeq([i \in 1..Len(b) |-> strip(b[i])], LAMBDA x : x # <<>>)

\* flush that drops an expression whose parentheses do not balance
flush_drops_unbalanced(st) ==
  LET expr == norm_ops(join(<<" ">>, stripped_parts(st.buf)))
      commit == st.current_q # <<>> /\ st.buf # <<>> /\ expr # <<>>
  IN  [st EXCEPT
         !.warnings = IF commit /\ st.paren_balance # 0
                      THEN Append(@, warning_text(st.current_q, expr)) ELSE @,
         !.logic_blocks = IF commit /\ st.paren_balance = 0
                          THEN put(@, st.current_q, expr) ELSE @,
         !.buf = <<>>,
         !.paren_balance = 0]

flush(st) ==
  LET expr == norm_ops(join(<<" ">>, stripped_parts(st.buf)))
      commit == st.current_q # <<>> /\ st.buf # <<>> /\ expr # <<>>
  IN  [st EXCEPT
         !.warnings = IF commit /\ st.paren_balance # 0
                      THEN Append(@, warning_text(st.current_q, expr)) ELSE @,
         !.logic_blocks = IF commit THEN put(@, st.current_q, expr) ELSE @,
         !.buf = <<>>,
         !.paren_balance = 0]

\* register without the test "sid not in seen"
register_always(st, sid, desc) ==
  [st EXCEPT !.signals = Append(@, SignalInfo(sid, desc)),
             !.seen = @ \cup {sid}]

\* if sid not in seen: signals.append(SignalInfo(...)); seen.add(sid)
register(st, sid, desc) ==
  IF sid \notin st.seen
  THEN [st EXCEPT !.signals = Append(@, SignalInfo(sid, desc)),
                  !.seen = @ \cup {sid}]
  ELSE st

\* on_equation that appends to the expression an id already has
on_equation_merge(st, m1) ==
  LET sid == normalize_id(m1.id)
      rhs == norm_ops(strip(m1.rest))
      old == st.logic_blocks
  IN  [register(st, sid, Placeholder) EXCEPT
         !.logic_blocks = put(@, sid, IF sid \in DOMAIN old
                                      THEN old[sid] \o <<" ">> \o rhs ELSE rhs)]

\* the branch taken on an equation-line (m1), after the flush if there is one
on_equation(st, m1) ==
  LET sid == normalize_id(m1.id)
      rhs == norm_ops(strip(m1.rest))
  IN  [register(st, sid, Placeholder) EXCEPT !.logic_blocks = put(@, sid, rhs)]

\* the branch taken on a header-line (m2), after the flush
on_header(st, m2) ==
  LET q    == normalize_id(m2.id)
      desc == norm_line(m2.rest)
      s1   == [st EXCEPT !.current_q = q, !.current_desc = desc]
  IN  register(s1, q, IF desc # <<>> THEN desc ELSE Placeholder)

\* buf.append(raw.strip()); paren_balance += _paren_delta(raw)
collect(st, raw) ==
  [st EXCEPT !.buf = Append(@, strip(raw)),
             !.paren_balance = @ + paren_delta(raw)]

\* flush(); current_q = None; current_desc = ""
reset(st) == [flush(st) EXCEPT !.current_q = <<>>, !.current_desc = <<>>]

\* a blank line that always ends the block
blank_always_resets(st) == reset(st)

\* the branch taken on a blank line
blank(st) ==
  IF st.current_q # <<>> /\ st.paren_balance > 0 THEN st ELSE reset(st)

\* lines 111-121: flush, the equation, current_q = None
equation(st, m1) == [on_equation(flush(st), m1) EXCEPT !.current_q = <<>>]

\* lines 123-131: flush, the header
header(st, m2) == on_header(flush(st), m2)

\* lines 138-167: a line that matched no pattern
other(st, raw) ==
  IF st.current_q # <<>>
  THEN (IF st.paren_balance > 0
        THEN collect(st, raw)
        ELSE LET s1 == reset(st)
             IN  IF eq_re(raw).ok THEN on_equation(s1, eq_re(raw))
                 ELSE IF qhead_re(raw).ok THEN on_header(s1, qhead_re(raw))
                 ELSE s1)
  ELSE st

\* one iteration of "for raw in lines"
step(st, raw) ==
  LET m1 == eq_re(raw)
      m2 == qhead_re(raw)
  IN  IF strip(raw) = <<>>
      THEN blank(st)
      ELSE IF m1.ok
      THEN equation(st, m1)
      ELSE IF m2.ok
      THEN header(st, m2)
      ELSE IF st.current_q # <<>> /\ expr_re(raw)
      THEN collect(st, raw)
      ELSE other(st, raw)

\* the locals of process at line 85-90, over the fields of the processor
fresh(blocks, warns) ==
  [signals |-> <<>>, seen |-> {}, current_q |-> <<>>, current_desc |-> <<>>,
   buf |-> <<>>, paren_balance |-> 0, logic_blocks |-> blocks, warnings |-> warns]

\* the whole loop followed by the final flush
RECURSIVE run_lines(_, _)
run_lines(st, ls) ==
  IF ls = <<>> THEN flush(st) ELSE run_lines(step(st, Head(ls)), Tail(ls))

\* text = _norm_ops("\n".join(texts)); lines = [_norm_line(l) for l in text.splitlines()]
lines_of(ts) ==
  LET text == norm_ops(join(<<"NL">>, ts))
      ls   == splitlines(text)
  IN  [i \in 1..Len(ls) |-> norm_line(ls[i])]

-----------------------------------------------------------------------------
(* Bounds and inputs                                                        *)

MaxPages    == 2
MaxRuns     == 2
MaxAsmLines == 3
MaxStrLen   == 3
MaxRows     == 2
MaxUnits    == 1
MaxItems    == 1
MaxOpens    == 2

\* all sequences over S of length lo..hi
Seqs(S, lo, hi) == UNION {[1..k -> S] : k \in lo..hi}

\* page texts as the OCR backend yields them
PageSamples ==
  { <<"Q", "1", " ", "d", "NL", "A">>,              \* header-line of Q1, continuation-line
    <<"Q", "1", "=", "(", "A">>,                    \* equation-line of Q1, one open parenthesis
    <<"Q", "2", "=", "A", "NL", "Q", "1", " ", "d">>, \* equation-line of Q2, header-line of Q1
    <<"Q", "2", "=", "A">>,                         \* equation-line of Q2
    <<"A">>,                                        \* continuation-line
    <<"Q", "1", " ", "d", "NL", "(", "A">>,         \* header-line of Q1, open parenthesis
    <<"Q", "1", "=", "OR", "TILDE", "NL", "NL">>,   \* equation-line of Q1, blank line
    <<"Q", "V", " ", "V">>,                         \* header-line of QV, description V
    <<"Q", "1", "2">>,                              \* the id token Q12 alone
    <<"Q", "1", " ", "d", "NL", "#">>,              \* header-line of Q1, a line of other text
    <<>> }                                          \* page without text

Docs == Seqs(PageSamples, 0, MaxPages)

\* a continuation-line longer than the preview of a warning
LongLine == <<"(">> \o [k \in 1..PreviewLen |-> "1"]

\* normalised lines as the line loop can be given them
AsmLineSamples ==
  { <<>>,
    <<"Q", "1", " ", "d">>,
    <<"Q", "2", ":", "d">>,
    <<"Q", "1", "=", "A">>,
    <<"(", "A">>,
    <<"A", ")">>,
    <<"#">>,
    LongLine }

\* rows of a signals file: the cells signal_id and logic_expr as read
CsvRowSamples ==
  [signal_id : {<<"ISP">>, <<"v", "1">>}, logic_expr : {<<" ">>, <<"A", "V", "B">>}]

NormChars == {"OR", "FV", "V", "FCARET", "MINUS", "EN", "HBAR", "KATA", "-",
              "HEAVY", "FPLUS", " ", "ISP", "NL", "1", "TILDE"}

-----------------------------------------------------------------------------
(* SimplePDFProcessor.process as a state machine                            *)

PS == [signals |-> signals, seen |-> seen, current_q |-> current_q,
       current_desc |-> current_desc, buf |-> buf, paren_balance |-> paren_balance,
       logic_blocks |-> logic_blocks, warnings |-> warnings]

Load(st) ==
  /\ signals' = st.signals
  /\ seen' = st.seen
  /\ current_q' = st.current_q
  /\ current_desc' = st.current_desc
  /\ buf' = st.buf
  /\ paren_balance' = st.paren_balance
  /\ logic_blocks' = st.logic_blocks
  /\ warnings' = st.warnings

NormIdle ==
  /\ n_pc = "off" /\ n_in = <<>> /\ n_out = <<>> /\ n_twice = <<>> /\ n_csv = <<"unset">>

CsvIdle ==
  /\ c_rows = <<>> /\ c_pc = "idle" /\ c_i = 0 /\ c_count = 0 /\ c_warnings = <<>>
  /\ c_calls = <<>> /\ c_polls = 0 /\ c_cancelled = FALSE /\ c_progress = <<>>

WorkerIdle ==
  /\ w_kind = "csv" /\ w_units = 0 /\ w_pc = "idle" /\ w_stage = "csv" /\ w_left = 0
  /\ w_cancel = FALSE /\ w_pending = FALSE /\ w_decision = "none"
  /\ w_dialog = "none" /\ w_emitted = <<>> /\ w_polled_true = FALSE
  /\ w_requested = FALSE /\ w_signals = 0 /\ w_conns = 0 /\ w_warnings = 0

RepoIdle == r_db = <<>> /\ r_given = <<>> /\ r_opens = 0

\* a new processor (__init__) and the entry of its first call of process
ProcStart(doc) ==
  /\ pages = doc
  /\ ocr_ok \in BOOLEAN
  /\ pc = "import"
  /\ page_i = 0
  /\ texts = <<>>
  /\ polls = 0
  /\ cancelled = FALSE
  /\ progress = <<>>
  /\ lines = <<>>
  /\ idx = 0
  /\ signals = <<>> /\ seen = {} /\ current_q = <<>> /\ current_desc = <<>>
  /\ buf = <<>> /\ paren_balance = 0
  /\ logic_blocks = <<>> /\ warnings = <<>>
  /\ run = 1
  /\ prev = [done |-> FALSE, texts |-> <<>>, signals |-> <<>>,
             logic_blocks |-> <<>>, warnings |-> <<>>]
  /\ start_blocks = <<>> /\ start_warnings = <<>>

Init ==
  (\E doc \in Docs : ProcStart(doc)) /\ NormIdle /\ CsvIdle /\ WorkerIdle /\ RepoIdle

\* process without the test of the OCR backend
import_backend_unchecked(ok) == "ocr"

\* lines 62-68: the position of process after the imports
import_backend(ok) == IF ok THEN "ocr" ELSE "raised"

\* lines 62-68: the imports of the OCR backend, RuntimeError when they fail
ImportBackend ==
  /\ pc = "import"
  /\ pc' = import_backend(ocr_ok)
  /\ UNCHANGED <<pages, ocr_ok, page_i, texts, polls, cancelled, progress, lines,
                 idx, signals, seen, current_q, current_desc, buf, paren_balance,
                 logic_blocks, warnings, run, prev, start_blocks, start_warnings,
                 normVars, csvVars, workerVars, repoVars>>

\* the OCR loop with the cancel check after the page was read
ocr_texts_checked_late(ts, page, cancel) == Append(ts, page)

\* texts after one iteration of the OCR loop
ocr_texts(ts, page, cancel) == IF cancel THEN ts ELSE Append(ts, page)

\* progress values that count the pages from 0
progress_value_from_zero(i) == i

\* progress_cb(i+1)
progress_value(i) == i + 1

\* one iteration of "for i, pg in enumerate(pages)"
OcrPage ==
  /\ pc = "ocr"
  /\ page_i < Len(pages)
  /\ \E cancel \in BOOLEAN :
       /\ polls' = polls + 1
       /\ cancelled' = cancel
       /\ texts' = ocr_texts(texts, pages[page_i + 1], cancel)
       /\ IF cancel
          THEN pc' = "parse" /\ UNCHANGED <<page_i, progress>>
          ELSE /\ pc' = "ocr"
               /\ page_i' = page_i + 1
               /\ progress' = Append(progress, progress_value(page_i))
  /\ UNCHANGED <<pages, ocr_ok, lines, idx, signals, seen, current_q, current_desc, buf,
                 paren_balance, logic_blocks, warnings, run, prev,
                 start_blocks, start_warnings, normVars, csvVars, workerVars, repoVars>>

\* lines 77-90: the text, its lines and the locals of the line loop
Normalize ==
  /\ pc = "parse" \/ (pc = "ocr" /\ page_i = Len(pages))
  /\ pc' = "lines"
  /\ lines' = lines_of(texts)
  /\ idx' = 0
  /\ Load(fresh(logic_blocks, warnings))
  /\ UNCHANGED <<pages, ocr_ok, page_i, texts, polls, cancelled, progress, run, prev,
                 start_blocks, start_warnings, normVars, csvVars, workerVars, repoVars>>

\* one iteration of "for raw in lines"
StepLine ==
  /\ pc = "lines"
  /\ idx < Len(lines)
  /\ idx' = idx + 1
  /\ Load(step(PS, lines[idx + 1]))
  /\ UNCHANGED <<pages, ocr_ok, pc, page_i, texts, polls, cancelled, progress, lines, run,
                 prev, start_blocks, start_warnings, normVars, csvVars, workerVars, repoVars>>

\* lines 169-170: the final flush and the return
Return ==
  /\ pc = "lines"
  /\ idx = Len(lines)
  /\ pc' = "done"
  /\ Load(flush(PS))
  /\ UNCHANGED <<pages, ocr_ok, page_i, texts, polls, cancelled, progress, lines, idx, run,
                 prev, start_blocks, start_warnings, normVars, csvVars, workerVars, repoVars>>

\* another call of process on the same processor, for the same document
CallAgain ==
  /\ pc \in {"done", "raised"}
  /\ run < MaxRuns
  /\ run' = run + 1
  /\ ocr_ok' \in BOOLEAN
  /\ pc' = "import"
  /\ page_i' = 0
  /\ texts' = <<>>
  /\ polls' = 0
  /\ cancelled' = FALSE
  /\ progress' = <<>>
  /\ start_blocks' = logic_blocks
  /\ start_warnings' = warnings
  /\ prev' = [done |-> pc = "done", texts |-> texts, signals |-> signals,
              logic_blocks |-> logic_blocks, warnings |-> warnings]
  /\ UNCHANGED <<pages, lines, idx, signals, seen, current_q, current_desc, buf,
                 paren_balance, logic_blocks, warnings, normVars, csvVars, workerVars, repoVars>>

Next == ImportBackend \/ OcrPage \/ Normalize \/ StepLine \/ Return \/ CallAgain

Spec == Init /\ [][Next]_vars

(* The line loop of process alone, over any list of normalised lines        *)

InitAsm ==
  /\ lines \in Seqs(AsmLineSamples, 0, MaxAsmLines)
  /\ pages = <<>> /\ ocr_ok = TRUE /\ pc = "lines" /\ page_i = 0 /\ texts = <<>> /\ polls = 0
  /\ cancelled = FALSE /\ progress = <<>> /\ idx = 0
  /\ signals = <<>> /\ seen = {} /\ current_q = <<>> /\ current_desc = <<>>
  /\ buf = <<>> /\ paren_balance = 0
  /\ logic_blocks = <<>> /\ warnings = <<>>
  /\ run = 1
  /\ prev = [done |-> FALSE, texts |-> <<>>, signals |-> <<>>,
             logic_blocks |-> <<>>, warnings |-> <<>>]
  /\ start_blocks = <<>> /\ start_warnings = <<>>
  /\ NormIdle /\ CsvIdle /\ WorkerIdle /\ RepoIdle

NextAsm == StepLine \/ Return

SpecAsm == InitAsm /\ [][NextAsm]_vars

(* The normalizers applied to one string                                    *)

ProcIdle ==
  /\ pages = <<>> /\ ocr_ok = TRUE /\ pc = "idle" /\ page_i = 0 /\ texts = <<>> /\ polls = 0
  /\ cancelled = FALSE /\ progress = <<>> /\ lines = <<>> /\ idx = 0
  /\ signals = <<>> /\ seen = {} /\ current_q = <<>> /\ current_desc = <<>>
  /\ buf = <<>> /\ paren_balance = 0
  /\ logic_blocks = <<>> /\ warnings = <<>>
  /\ run = 0
  /\ prev = [done |-> FALSE, texts |-> <<>>, signals |-> <<>>,
             logic_blocks |-> <<>>, warnings |-> <<>>]
  /\ start_blocks = <<>> /\ start_warnings = <<>>

InitNorm ==
  /\ ProcIdle /\ CsvIdle /\ WorkerIdle /\ RepoIdle
  /\ n_in \in Seqs(NormChars, 0, MaxStrLen)
  /\ n_pc = "in" /\ n_out = <<>> /\ n_twice = <<>> /\ n_csv = <<"unset">>

\* t = _norm_ops(x)
ApplyNormOps ==
  /\ n_pc = "in"
  /\ n_pc' = "once"
  /\ n_out' = norm_ops(n_in)
  /\ UNCHANGED <<n_in, n_twice, n_csv, procVars, csvVars, workerVars, repoVars>>

\* _norm_ops(t)
ApplyNormOpsAgain ==
  /\ n_pc = "once"
  /\ n_pc' = "twice"
  /\ n_twice' = norm_ops(n_out)
  /\ UNCHANGED <<n_in, n_out, n_csv, procVars, csvVars, workerVars, repoVars>>

\* csv_importers._norm_expr(x)
ApplyNormExpr ==
  /\ n_pc \in {"in", "once", "twice"}
  /\ n_csv = <<"unset">>
  /\ n_csv' = norm_expr(n_in)
  /\ UNCHANGED <<n_pc, n_in, n_out, n_twice, procVars, csvVars, workerVars, repoVars>>

NextNorm == ApplyNormOps \/ ApplyNormOpsAgain \/ ApplyNormExpr

SpecNorm == InitNorm /\ [][NextNorm]_vars

-----------------------------------------------------------------------------
(* CSVSignalImporter.import_file as a state machine                         *)
(* Of a row only the cells signal_id and logic_expr decide what the loop    *)
(* does; the other cells are copied into the record that is saved.          *)

ProgressEvery == 50

Call(op, i, sid, arg, ok) == [op |-> op, row |-> i, id |-> sid, arg |-> arg, ok |-> ok]

RowWarning(i, msg) == [row |-> i, msg |-> msg]

\* the body of the row loop with the test of logic_expr after add_signal
import_row_expr_checked_late(i, row, sig_ok, eq_ok) ==
  LET sid  == norm_id(row.signal_id)
      expr == norm_expr(row.logic_expr)
      sig  == Call("add_signal", i, sid, <<>>, sig_ok)
  IN  IF sid = <<>>
      THEN [warnings |-> <<RowWarning(i, "empty signal_id")>>,
            calls |-> <<>>, counted |-> FALSE]
      ELSE IF ~sig_ok
      THEN [warnings |-> <<RowWarning(i, "add_signal failed")>>,
            calls |-> <<sig>>, counted |-> FALSE]
      ELSE IF expr = <<>>
      THEN [warnings |-> <<RowWarning(i, "empty logic_expr")>>,
            calls |-> <<sig>>, counted |-> FALSE]
      ELSE IF ~eq_ok
      THEN [warnings |-> <<RowWarning(i, "add_logic_equation failed")>>,
            calls |-> <<sig, Call("add_logic_equation", i, sid, expr, FALSE)>>,
            counted |-> FALSE]
      ELSE [warnings |-> <<>>,
            calls |-> <<sig, Call("add_logic_equation", i, sid, expr, TRUE)>>,
            counted |-> TRUE]

\* lines 133-187 for row number i: the warnings it appends, the calls it
\* makes on the repository and whether it is counted; sig_ok and eq_ok tell
\* whether add_signal and add_logic_equation return or raise
import_row(i, row, sig_ok, eq_ok) ==
  LET sid  == norm_id(row.signal_id)
      expr == norm_expr(row.logic_expr)
      sig  == Call("add_signal", i, sid, <<>>, sig_ok)
  IN  IF sid = <<>>
      THEN [warnings |-> <<RowWarning(i, "empty signal_id")>>,
            calls |-> <<>>, counted |-> FALSE]
      ELSE IF expr = <<>>
      THEN [warnings |-> <<RowWarning(i, "empty logic_expr")>>,
            calls |-> <<>>, counted |-> FALSE]
      ELSE IF ~sig_ok
      THEN [warnings |-> <<RowWarning(i, "add_signal failed")>>,
            calls |-> <<sig>>, counted |-> FALSE]
      ELSE IF ~eq_ok
      THEN [warnings |-> <<RowWarning(i, "add_logic_equation failed")>>,
            calls |-> <<sig, Call("add_logic_equation", i, sid, expr, FALSE)>>,
            counted |-> FALSE]
      ELSE [warnings |-> <<>>,
            calls |-> <<sig, Call("add_logic_equation", i, sid, expr, TRUE)>>,
            counted |-> TRUE]

InitCsv ==
  /\ ProcIdle /\ NormIdle /\ WorkerIdle /\ RepoIdle
  /\ c_rows \in Seqs(CsvRowSamples, 0, MaxRows)
  /\ c_pc = "open" /\ c_i = 0 /\ c_count = 0 /\ c_warnings = <<>>
  /\ c_calls = <<>> /\ c_polls = 0 /\ c_cancelled = FALSE /\ c_progress = <<>>

\* lines 110-120: the file is opened and its header checked
CsvOpen ==
  /\ c_pc = "open"
  /\ c_count' = 0
  /\ c_warnings' = <<>>
  /\ \E header_ok \in BOOLEAN : c_pc' = IF header_ok THEN "rows" ELSE "raised"
  /\ UNCHANGED <<c_rows, c_i, c_calls, c_polls, c_cancelled, c_progress,
                 procVars, normVars, workerVars, repoVars>>

\* one iteration of "for i, row in enumerate(reader, 1)"
CsvRow ==
  /\ c_pc = "rows"
  /\ c_i < Len(c_rows)
  /\ \E readable, cancel, sig_ok, eq_ok \in BOOLEAN :
       IF ~readable
       THEN /\ c_pc' = "raised"
            /\ UNCHANGED <<c_i, c_count, c_warnings, c_calls, c_polls, c_cancelled,
                           c_progress>>
       ELSE IF cancel
       THEN /\ c_pc' = "end"
            /\ c_polls' = c_polls + 1
            /\ c_cancelled' = TRUE
            /\ UNCHANGED <<c_i, c_count, c_warnings, c_calls, c_progress>>
       ELSE LET i == c_i + 1
                r == import_row(i, c_rows[i], sig_ok, eq_ok)
            IN  /\ c_polls' = c_polls + 1
                /\ c_i' = i
                /\ c_warnings' = c_warnings \o r.warnings
                /\ c_calls' = c_calls \o r.calls
                /\ c_count' = IF r.counted THEN c_count + 1 ELSE c_count
                /\ c_progress' = IF r.counted /\ i % ProgressEvery = 0
                                 THEN Append(c_progress, i) ELSE c_progress
                /\ UNCHANGED <<c_pc, c_cancelled>>
  /\ UNCHANGED <<c_rows, procVars, normVars, workerVars, repoVars>>

\* lines 201-205: the last progress value and the return
CsvReturn ==
  /\ c_pc = "end" \/ (c_pc = "rows" /\ c_i = Len(c_rows))
  /\ c_pc' = "done"
  /\ c_progress' = Append(c_progress, c_count)
  /\ UNCHANGED <<c_rows, c_i, c_count, c_warnings, c_calls, c_polls, c_cancelled,
                 procVars, normVars, workerVars, repoVars>>

NextCsv == CsvOpen \/ CsvRow \/ CsvReturn

SpecCsv == InitCsv /\ [][NextCsv]_vars

-----------------------------------------------------------------------------
(* ImportCSVWorker.run and ImportPDFWorker.run in the worker thread, and    *)
(* the window in the thread of the user interface.                          *)
(* The worker is moved to its own thread (main_window.py, moveToThread) and *)
(* run is called by that thread.  A signal connected to a slot of the       *)
(* worker from the other thread is queued for the worker thread and is      *)
(* delivered when that thread runs an event loop: the local loop of         *)
(* _confirm, or the loop of the thread after run has returned.              *)
(* set_user_decision is called by the window as a plain method.             *)

Ended == {"returned", "escaped"}

Terminal == {"finished", "error", "canceled"}

\* "except Exception" of run: ImportCSVWorker calls self._log_exception, an
\* attribute the class does not have, and the AttributeError leaves run;
\* ImportPDFWorker logs and emits error
on_exception(kind, emitted) ==
  IF kind = "csv"
  THEN [pc |-> "escaped", emitted |-> emitted]
  ELSE [pc |-> "returned", emitted |-> Append(emitted, "error")]

Raise ==
  LET h == on_exception(w_kind, w_emitted)
  IN  w_pc' = h.pc /\ w_emitted' = h.emitted

InitWorker ==
  /\ ProcIdle /\ NormIdle /\ CsvIdle /\ RepoIdle
  /\ w_kind \in {"csv", "pdf"}
  /\ w_units \in 0..MaxUnits
  /\ w_pc = "ready" /\ w_stage = "csv" /\ w_left = 0
  /\ w_cancel = FALSE /\ w_pending = FALSE /\ w_decision = "none"
  /\ w_dialog = "none" /\ w_emitted = <<>> /\ w_polled_true = FALSE
  /\ w_requested = FALSE /\ w_signals = 0 /\ w_conns = 0 /\ w_warnings = 0

\* run up to the call of the importer: started, the repository, the importer
WRun ==
  /\ w_pc = "ready"
  /\ \E repo_ok \in BOOLEAN :
       IF repo_ok
       THEN /\ w_emitted' = Append(w_emitted, "started")
            /\ w_pc' = "import"
            /\ w_stage' = IF w_kind = "csv" THEN "csv" ELSE "sig"
            /\ w_left' = w_units
       ELSE LET h == on_exception(w_kind, Append(w_emitted, "started"))
            IN  /\ w_pc' = h.pc /\ w_emitted' = h.emitted
                /\ UNCHANGED <<w_stage, w_left>>
  /\ UNCHANGED <<w_kind, w_units, w_cancel, w_pending, w_decision, w_dialog,
                 w_polled_true, w_requested, w_signals, w_conns, w_warnings,
                 procVars, normVars, csvVars, repoVars>>

\* the importer returns to run: what run holds and where it goes on
ImporterReturns(read) ==
  CASE w_stage = "csv" -> w_pc' = "finish" /\ UNCHANGED <<w_signals, w_conns>>
    [] w_stage = "sig" -> /\ w_pc' = "save"
                          /\ w_signals' \in 0..(IF read > 0 THEN MaxItems ELSE 0)
                          /\ UNCHANGED w_conns
    [] w_stage = "box" -> /\ w_pc' = "boxsave"
                          /\ w_conns' \in 0..(IF read > 0 THEN MaxItems ELSE 0)
                          /\ UNCHANGED w_signals

\* one iteration of the loop of the importer: cancel_cb is polled, which
\* returns self._cancel, and the loop is left or the row / page is read
WImporterStep ==
  /\ w_pc = "import"
  /\ w_left > 0
  /\ IF w_cancel
     THEN /\ w_polled_true' = TRUE
          /\ ImporterReturns(w_units - w_left)
          /\ UNCHANGED w_left
     ELSE /\ w_left' = w_left - 1
          /\ UNCHANGED <<w_pc, w_polled_true, w_signals, w_conns>>
  /\ UNCHANGED <<w_kind, w_units, w_stage, w_cancel, w_pending, w_decision,
                 w_dialog, w_emitted, w_requested, w_warnings,
                 procVars, normVars, csvVars, repoVars>>

\* the loop of the importer has passed every row / page
WImporterReturn ==
  /\ w_pc = "import"
  /\ w_left = 0
  /\ ImporterReturns(w_units)
  /\ UNCHANGED <<w_kind, w_units, w_stage, w_left, w_cancel, w_pending, w_decision,
                 w_dialog, w_emitted, w_polled_true, w_requested, w_warnings,
                 procVars, normVars, csvVars, repoVars>>

\* the importer raises; run calls _confirm, which emits ask_confirm and
\* enters its local event loop
WImporterRaise ==
  /\ w_pc = "import"
  /\ w_pc' = "confirm"
  /\ w_decision' = "none"
  /\ w_emitted' = Append(w_emitted, "ask_confirm")
  /\ UNCHANGED <<w_kind, w_units, w_stage, w_left, w_cancel, w_pending, w_dialog,
                 w_polled_true, w_requested, w_signals, w_conns, w_warnings,
                 procVars, normVars, csvVars, repoVars>>

\* an event loop of the worker thread delivers the queued call of cancel
WDispatchCancel ==
  /\ w_pending
  /\ w_pc \in {"confirm", "returned"}
  /\ w_cancel' = TRUE
  /\ w_pending' = FALSE
  /\ UNCHANGED <<w_kind, w_units, w_pc, w_stage, w_left, w_decision, w_dialog,
                 w_emitted, w_polled_true, w_requested, w_signals, w_conns,
                 w_warnings, procVars, normVars, csvVars, repoVars>>

\* _tick finds the decision; _confirm returns it to run
WConfirmed ==
  /\ w_pc = "confirm"
  /\ w_decision # "none"
  /\ IF w_decision = "yes"
     THEN /\ w_warnings' = w_warnings + 1
          /\ w_pc' = CASE w_stage = "csv" -> "finish"
                       [] w_stage = "sig" -> "save"
                       [] w_stage = "box" -> "boxsave"
          /\ w_signals' = IF w_stage = "sig" THEN 0 ELSE w_signals
          /\ w_conns' = IF w_stage = "box" THEN 0 ELSE w_conns
          /\ UNCHANGED w_emitted
     ELSE /\ IF w_stage = "box"
             THEN w_pc' = "finish" /\ UNCHANGED w_emitted
             ELSE Raise
          /\ UNCHANGED <<w_warnings, w_signals, w_conns>>
  /\ UNCHANGED <<w_kind, w_units, w_stage, w_left, w_cancel, w_pending, w_decision,
                 w_dialog, w_polled_true, w_requested, procVars, normVars, csvVars, repoVars>>

\* one iteration of "for s in signals"
WSaveSignal ==
  /\ w_pc = "save"
  /\ w_signals > 0
  /\ IF w_cancel
     THEN /\ w_emitted' = Append(w_emitted, "canceled")
          /\ w_pc' = "returned"
          /\ UNCHANGED <<w_signals, w_warnings>>
     ELSE /\ w_signals' = w_signals - 1
          /\ \E ok \in BOOLEAN : w_warnings' = IF ok THEN w_warnings ELSE w_warnings + 1
          /\ UNCHANGED <<w_pc, w_emitted>>
  /\ UNCHANGED <<w_kind, w_units, w_stage, w_left, w_cancel, w_pending, w_decision,
                 w_dialog, w_polled_true, w_requested, w_conns,
                 procVars, normVars, csvVars, repoVars>>

\* the expressions of the processor are saved and BoxPDFProcessor.process is called
WSaveBlocks ==
  /\ w_pc = "save"
  /\ w_signals = 0
  /\ \E ok \in BOOLEAN : w_warnings' = IF ok THEN w_warnings ELSE w_warnings + 1
  /\ w_pc' = "import"
  /\ w_stage' = "box"
  /\ w_left' = w_units
  /\ UNCHANGED <<w_kind, w_units, w_cancel, w_pending, w_decision, w_dialog,
                 w_emitted, w_polled_true, w_requested, w_signals, w_conns,
                 procVars, normVars, csvVars, repoVars>>

\* one iteration of "for bc in conns"
WSaveConn ==
  /\ w_pc = "boxsave"
  /\ w_conns > 0
  /\ IF w_cancel
     THEN /\ w_emitted' = Append(w_emitted, "canceled")
          /\ w_pc' = "returned"
          /\ UNCHANGED <<w_conns, w_warnings>>
     ELSE /\ w_conns' = w_conns - 1
          /\ \E ok \in BOOLEAN : w_warnings' = IF ok THEN w_warnings ELSE w_warnings + 1
          /\ UNCHANGED <<w_pc, w_emitted>>
  /\ UNCHANGED <<w_kind, w_units, w_stage, w_left, w_cancel, w_pending, w_decision,
                 w_dialog, w_polled_true, w_requested, w_signals,
                 procVars, normVars, csvVars, repoVars>>

\* the end of run: canceled (ImportCSVWorker), the report of the warnings, finished
WFinish ==
  /\ w_pc = "finish" \/ (w_pc = "boxsave" /\ w_conns = 0)
  /\ IF w_kind = "csv" /\ w_cancel
     THEN /\ w_emitted' = Append(w_emitted, "canceled")
          /\ w_pc' = "returned"
          /\ UNCHANGED w_warnings
     ELSE \E importer_warnings, log_ok \in BOOLEAN :
            LET n == IF w_kind = "csv" /\ importer_warnings
                     THEN w_warnings + 1 ELSE w_warnings
            IN  /\ w_warnings' = n
                /\ IF n = 0
                   THEN /\ w_emitted' = Append(w_emitted, "finished")
                        /\ w_pc' = "returned"
                   ELSE IF log_ok
                   THEN /\ w_emitted' = w_emitted \o <<"report", "finished">>
                        /\ w_pc' = "returned"
                   ELSE Raise
  /\ UNCHANGED <<w_kind, w_units, w_stage, w_left, w_cancel, w_pending, w_decision,
                 w_dialog, w_polled_true, w_requested, w_signals, w_conns,
                 procVars, normVars, csvVars, repoVars>>

\* the window handles started: _open_progress shows the dialog and connects
\* its signal canceled to the slot cancel of the worker
UiOpenProgress ==
  /\ w_dialog = "none"
  /\ w_emitted # <<>>
  /\ w_dialog' = "open"
  /\ UNCHANGED <<w_kind, w_units, w_pc, w_stage, w_left, w_cancel, w_pending,
                 w_decision, w_emitted, w_polled_true, w_requested, w_signals,
                 w_conns, w_warnings, procVars, normVars, csvVars, repoVars>>

\* the user presses the button of the dialog: the dialog hides and emits
\* canceled, and the call of cancel is queued for the worker thread
UiCancelClick ==
  /\ w_dialog = "open"
  /\ w_dialog' = "hidden"
  /\ w_pending' = TRUE
  /\ w_requested' = (w_pc \notin Ended)
  /\ UNCHANGED <<w_kind, w_units, w_pc, w_stage, w_left, w_cancel, w_decision,
                 w_emitted, w_polled_true, w_signals, w_conns, w_warnings,
                 procVars, normVars, csvVars, repoVars>>

\* the window handles ask_confirm: the user answers the question and
\* _on_worker_confirm calls set_user_decision
UiAnswer ==
  /\ w_pc = "confirm"
  /\ w_decision = "none"
  /\ w_decision' \in {"yes", "no"}
  /\ UNCHANGED <<w_kind, w_units, w_pc, w_stage, w_left, w_cancel, w_pending,
                 w_dialog, w_emitted, w_polled_true, w_requested, w_signals,
                 w_conns, w_warnings, procVars, normVars, csvVars, repoVars>>

\* the window handles finished, error or canceled: _close_progress
UiCloseProgress ==
  /\ w_dialog \in {"open", "hidden"}
  /\ \E k \in 1..Len(w_emitted) : w_emitted[k] \in Terminal
  /\ w_dialog' = "closed"
  /\ UNCHANGED <<w_kind, w_units, w_pc, w_stage, w_left, w_cancel, w_pending,
                 w_decision, w_emitted, w_polled_true, w_requested, w_signals,
                 w_conns, w_warnings, procVars, normVars, csvVars, repoVars>>

NextWorker ==
  \/ WRun \/ WImporterStep \/ WImporterReturn \/ WImporterRaise
  \/ WDispatchCancel \/ WConfirmed \/ WSaveSignal \/ WSaveBlocks \/ WSaveConn
  \/ WFinish \/ UiOpenProgress \/ UiCancelClick \/ UiAnswer \/ UiCloseProgress

SpecWorker == InitWorker /\ [][NextWorker]_vars

-----------------------------------------------------------------------------
(* sqlite_impl.py: SQLiteSignalRepository on one database file               *)
(* Texts of the table are atomic strings: "SW1", "SW2" and "OUT" stand for   *)
(* the descriptions of the samples, "L1" and "L2" for their logic groups.    *)

Signal(sid, type, desc, from, via, to, addr, grp) ==
  [signal_id |-> sid, signal_type |-> type, description |-> desc,
   from_box |-> from, via_boxes |-> via, to_box |-> to,
   program_address |-> addr, logic_group |-> grp]

\* the list samples of _insert_sample_data
samples ==
  << Signal("X01", "INPUT", "SW1", "BOX1", <<>>, "BOX7", "X01", "L1"),
     Signal("X02", "INPUT", "SW2", "BOX1", <<"BOX5">>, "BOX7", "X02", "L1"),
     Signal("Q124", "OUTPUT", "OUT", "BOX3", <<"BOX5", "BOX6">>, "BOX7", "Q124", "L2") >>

\* the signals callers store: an id of the samples and an id of their own
GivenSignals ==
  { Signal(sid, "INTERNAL", desc, "BOX9", via, "", sid, "")
      : sid \in {"Q124", "Q7"}, desc \in {"D1", "D2"}, via \in {<<>>, <<"BOX8">>} }

\* the row add_signal writes: signal_type.value, via_boxes as a JSON list
row_of(signal) ==
  [signal_id |-> signal.signal_id, signal_type |-> signal.signal_type,
   description |-> signal.description, from_box |-> signal.from_box,
   via_boxes |-> [json |-> signal.via_boxes], to_box |-> signal.to_box,
   program_address |-> signal.program_address, logic_group |-> signal.logic_group]

\* _row_to_signal
row_to_signal(row) ==
  Signal(row.signal_id, row.signal_type, row.description, row.from_box,
         row.via_boxes.json, row.to_box, row.program_address, row.logic_group)

\* _init_database: CREATE TABLE IF NOT EXISTS keeps the rows of a table
init_database(db) == db

\* add_signal: INSERT ... ON CONFLICT(signal_id) DO UPDATE SET every column
add_signal(db, signal) == put(db, signal.signal_id, row_of(signal))

\* _insert_sample_data from sample k on; raised holds the samples whose
\* add_signal raised, which the handler passes over
RECURSIVE insert_sample_data(_, _, _)
insert_sample_data(db, k, raised) ==
  IF k > Len(samples) THEN db
  ELSE insert_sample_data(IF k \in raised THEN db ELSE add_signal(db, samples[k]),
                          k + 1, raised)

\* get_signal: the signal of the row, "None" when there is no row
get_signal(db, sid) ==
  IF sid \in DOMAIN db THEN row_to_signal(db[sid]) ELSE "None"

InitRepo ==
  /\ r_db = <<>> /\ r_given = <<>> /\ r_opens = 0
  /\ ProcIdle /\ NormIdle /\ CsvIdle /\ WorkerIdle

\* SQLiteSignalRepository(db_path): an application start or a worker run
RepoOpen ==
  /\ r_opens < MaxOpens
  /\ r_opens' = r_opens + 1
  /\ \E raised \in SUBSET (1..Len(samples)) :
       r_db' = insert_sample_data(init_database(r_db), 1, raised)
  /\ UNCHANGED <<r_given, procVars, normVars, csvVars, workerVars>>

\* a caller's add_signal on a repository object of the file
RepoAddSignal ==
  /\ r_opens > 0
  /\ \E signal \in GivenSignals :
       /\ r_db' = add_signal(r_db, signal)
       /\ r_given' = put(r_given, signal.signal_id, signal)
  /\ UNCHANGED <<r_opens, procVars, normVars, csvVars, workerVars>>

NextRepo == RepoOpen \/ RepoAddSignal

SpecRepo == InitRepo /\ [][NextRepo]_vars

-----------------------------------------------------------------------------
(* Vocabulary of the properties                                             *)

\* the lines of the text that was read, as the OCR backend delimited them
RawLines == splitlines(join(<<"NL">>, texts))

\* a line as the classifier is meant to see it
NormalizedLine(l) == norm_line(norm_ops(l))

IsEquationLine(l) == eq_re(NormalizedLine(l)).ok

IsHeaderLine(l) == ~IsEquationLine(l) /\ qhead_re(NormalizedLine(l)).ok

IsContinuationLine(l) ==
  /\ NormalizedLine(l) # <<>>
  /\ ~IsEquationLine(l) /\ ~IsHeaderLine(l)
  /\ expr_re(NormalizedLine(l))

\* the id an equation-line or header-line names, <<>> for any other line
LineId(l) ==
  IF IsEquationLine(l) THEN normalize_id(eq_re(NormalizedLine(l)).id)
  ELSE IF IsHeaderLine(l) THEN normalize_id(qhead_re(NormalizedLine(l)).id)
  ELSE <<>>

StartsWith(s, prefix) ==
  Len(prefix) <= Len(s) /\ SubSeq(s, 1, Len(prefix)) = prefix

Contains(s, part) ==
  \E k \in 0..(Len(s) - Len(part)) : SubSeq(s, k + 1, k + Len(part)) = part

Preview(expr) ==
  SubSeq(expr, 1, IF Len(expr) < PreviewLen THEN Len(expr) ELSE PreviewLen)

Unbalanced(expr) ==
  Cardinality({k \in 1..Len(expr) : expr[k] \in {"(", "FLP"}})
    # Cardinality({k \in 1..Len(expr) : expr[k] \in {")", "FRP"}})

\* the input of the first call is a header-line followed by continuation-lines only
HeaderThenContinuations ==
  /\ Len(RawLines) >= 2
  /\ IsHeaderLine(RawLines[1])
  /\ \A j \in 2..Len(RawLines) : IsContinuationLine(RawLines[j])

-----------------------------------------------------------------------------
(* Properties                                                               *)

\* C1: when the text read is a header-line for id X followed by k >= 1
\* continuation-lines and then the end of input, process commits exactly one
\* expression for X, the continuation lines joined by single spaces and
\* normalised, and returns exactly one SignalInfo for X whose description is
\* the trailing text of the header.
C1_HeaderBlockAssembled ==
  (pc = "done" /\ run = 1 /\ HeaderThenContinuations) =>
    LET h    == qhead_re(NormalizedLine(RawLines[1]))
        X    == normalize_id(h.id)
        desc == norm_line(h.rest)
        expr == norm_ops(join(<<" ">>, SubSeq(RawLines, 2, Len(RawLines))))
    IN  /\ DOMAIN logic_blocks = {X}
        /\ logic_blocks[X] = expr
        /\ signals = <<SignalInfo(X, IF desc = <<>> THEN Placeholder ELSE desc)>>

\* C2: when process returns, the number of SignalInfo records equals the
\* number of distinct ids named by an equation-line or a header-line among
\* the lines of the text that was read.
C2_OneRecordPerLineId ==
  pc = "done" =>
    Len(signals) =
      Cardinality({LineId(RawLines[j]) : j \in 1..Len(RawLines)} \ {<<>>})

\* C3: after any number of lines, no two records of signals share an id and
\* the ids of the records are exactly the set seen.
C3_NoDuplicateIds ==
  /\ \A j, k \in 1..Len(signals) :
       j # k => signals[j].signal_id # signals[k].signal_id
  /\ {signals[j].signal_id : j \in 1..Len(signals)} = seen

\* the loop has passed two lines that name the same id, and one record exists
C3_Witness ==
  /\ pc = "done"
  /\ Len(signals) = 1
  /\ Cardinality({j \in 1..Len(lines) : LineId(lines[j]) = signals[1].signal_id}) >= 2

\* C4: a call of process that read the same texts as the call before it on
\* the same processor leaves the same records, the same logic_blocks and the
\* same warning list as that call left.
C4_SecondRunIdentical ==
  (pc = "done" /\ run >= 2 /\ prev.done /\ texts = prev.texts) =>
    /\ signals = prev.signals
    /\ logic_blocks = prev.logic_blocks
    /\ warnings = prev.warnings

\* the second call returned, for texts that gave a record and an expression
C4_Witness ==
  /\ pc = "done" /\ run = 2 /\ prev.done /\ texts = prev.texts
  /\ signals # <<>>
  /\ DOMAIN logic_blocks # {}

\* C5: when cancel_cb first returns True at the check before page k+1, the
\* records, logic_blocks and warnings are those of a run that is not
\* cancelled on the first k pages alone.
C5_CancelledRunIsPrefixRun ==
  (pc = "done" /\ cancelled) =>
    LET k   == polls - 1
        ref == run_lines(fresh(start_blocks, start_warnings),
                         lines_of(SubSeq(pages, 1, k)))
    IN  /\ k < Len(pages)
        /\ signals = ref.signals
        /\ logic_blocks = ref.logic_blocks
        /\ warnings = ref.warnings

\* a run cancelled before its second page, which returned a record
C5_Witness ==
  /\ pc = "done" /\ cancelled /\ polls = 2
  /\ Len(pages) >= 2
  /\ signals # <<>>
  /\ DOMAIN logic_blocks # {}

C7_UnbalancedHasWarning ==
  pc = "done" =>
    \A q \in DOMAIN logic_blocks :
      Unbalanced(logic_blocks[q]) =>
        \E k \in 1..Len(warnings) : StartsWith(warnings[k], q \o <<":">>)

\* C8: norm_ops applied to its own result returns that result.
C8_NormOpsIdempotent ==
  n_pc = "twice" => n_twice = n_out

VariantChars == {"OR", "FV", "V", "FCARET", "MINUS", "EN", "HBAR", "KATA", "-",
                 "HEAVY", "FPLUS"}

\* the substitution table of the normalizer, one character at a time
Canonical(c) ==
  CASE c \in {"OR", "FV", "V"} -> "v"
    [] c = "FCARET" -> "^"
    [] c \in {"MINUS", "EN", "HBAR", "KATA", "-", "HEAVY"} -> "EM"
    [] c = "FPLUS" -> "+"
    [] OTHER -> c

\* C9: the result of one pass of norm_ops contains no variant character and
\* no two adjacent whitespace characters, its whitespace is the space, and
\* a string without whitespace and combining marks is mapped character by
\* character by the substitution table.
C9_OnePassCanonical ==
  n_pc \in {"once", "twice"} =>
    /\ \A k \in 1..Len(n_out) : n_out[k] \notin VariantChars
    /\ \A k \in 1..Len(n_out) : IsSpace(n_out[k]) => n_out[k] = " "
    /\ \A k \in 1..(Len(n_out) - 1) : ~(IsSpace(n_out[k]) /\ IsSpace(n_out[k + 1]))
    /\ AllIn(n_in, NormChars \ {" ", "ISP", "NL", "TILDE"}) =>
         n_out = [k \in 1..Len(n_in) |-> Canonical(n_in[k])]

\* a full-width V, a full-width caret and a hyphen on one line
C9_Witness ==
  /\ n_pc = "once"
  /\ n_in = <<"FV", "FCARET", "-">>
  /\ n_out = <<"v", "^", "EM">>

\* C10: csv_importers._norm_expr and pdf_importers._norm_ops return the same
\* string for every input.
C10_SameNormalizer ==
  (n_pc \in {"once", "twice"} /\ n_csv # <<"unset">>) => n_csv = n_out

\* the text read is one equation-line followed by one blank line
EquationThenBlank ==
  /\ Len(RawLines) = 2
  /\ eq_re(RawLines[1]).ok
  /\ IsEquationLine(RawLines[1])
  /\ strip(RawLines[2]) = <<>>

\* C11: for a text that is one equation-line "ID = expr" followed by a blank
\* line, the first call of process returns exactly one SignalInfo, with id
\* normalize_id(ID) and type OUTPUT, leaves logic_blocks with the one entry
\* normalize_id(ID) -> norm_ops(expr), and leaves no warning.
C11_SingleEquation ==
  (pc = "done" /\ run = 1 /\ EquationThenBlank) =>
    LET m == eq_re(RawLines[1])
        X == normalize_id(m.id)
    IN  /\ signals = <<SignalInfo(X, Placeholder)>>
        /\ DOMAIN logic_blocks = {X}
        /\ logic_blocks[X] = norm_ops(m.rest)
        /\ warnings = <<>>

\* the lines of the text read that name the id q
NamingLines(q) == {j \in 1..Len(RawLines) : LineId(RawLines[j]) = q}

\* the description a line gives the id it names
LineDesc(l) ==
  IF IsEquationLine(l) THEN Placeholder
  ELSE LET d == norm_line(qhead_re(NormalizedLine(l)).rest)
       IN  IF d = <<>> THEN Placeholder ELSE d

\* C12: when process returns and two or more lines of the text read name the
\* same id, signals holds exactly one record for the id, its description is
\* the one the first of these lines gives, and when the last of these lines
\* is an equation-line logic_blocks maps the id to the expression of that line.
C12_FirstDescLastExpr ==
  (pc = "done" /\ run = 1) =>
    \A q \in {LineId(RawLines[j]) : j \in 1..Len(RawLines)} \ {<<>>} :
      Cardinality(NamingLines(q)) >= 2 =>
        LET first == Min(NamingLines(q))
            last  == Max(NamingLines(q))
        IN  /\ Cardinality({k \in 1..Len(signals) : signals[k].signal_id = q}) = 1
            /\ \A k \in 1..Len(signals) :
                 signals[k].signal_id = q =>
                   signals[k].description = LineDesc(RawLines[first])
            /\ IsEquationLine(RawLines[last]) =>
                 /\ q \in DOMAIN logic_blocks
                 /\ logic_blocks[q] =
                      norm_ops(strip(eq_re(NormalizedLine(RawLines[last])).rest))

\* C13: when the OCR backend cannot be imported, the call of process raises
\* with no page read, no call of cancel_cb, no call of progress_cb, and with
\* logic_blocks and warnings as they were when the call started.
C13_MissingBackendRaises ==
  (~ocr_ok /\ pc # "import") =>
    /\ pc = "raised"
    /\ page_i = 0 /\ texts = <<>>
    /\ polls = 0 /\ progress = <<>>
    /\ logic_blocks = start_blocks
    /\ warnings = start_warnings

\* the second call on a processor that holds an expression has raised, for a
\* document that has pages
C13_Witness ==
  /\ pc = "raised" /\ run = 2
  /\ Len(pages) > 0
  /\ DOMAIN logic_blocks # {}

\* the document has no page, or no page with a character that is not blank
InputEmpty == \A k \in 1..Len(pages) : strip(pages[k]) = <<>>

\* C14: process does not return normally for an empty document.
C14_EmptyInputRaises ==
  InputEmpty => pc # "done"

\* the line fails the three patterns and is not taken as a continuation
Unrecognized(raw) ==
  /\ strip(raw) # <<>>
  /\ ~eq_re(raw).ok /\ ~qhead_re(raw).ok
  /\ ~(current_q # <<>> /\ (expr_re(raw) \/ paren_balance > 0))

\* C15: a line that is not blank and that fails every pattern makes the
\* iteration of the loop that takes it append one warning.
C15_UnrecognizedLineWarns ==
  (pc = "lines" /\ idx < Len(lines) /\ Unrecognized(lines[idx + 1])) =>
    Len(step(PS, lines[idx + 1]).warnings) = Len(warnings) + 1

\* C16: when ImportCSVWorker.run has ended, the first signal it emitted is
\* started, it emitted exactly one of finished, error and canceled, and that
\* signal is the last one it emitted.
C16_CsvRunEndsWithOneTerminal ==
  (w_kind = "csv" /\ w_pc \in Ended) =>
    /\ w_emitted # <<>>
    /\ w_emitted[1] = "started"
    /\ Cardinality({k \in 1..Len(w_emitted) : w_emitted[k] \in Terminal}) = 1
    /\ w_emitted[Len(w_emitted)] \in Terminal

\* C17: when run has ended and cancel_cb had returned True to an importer or
\* processor during it, run has emitted canceled and has not emitted finished.
C17_CancelledRunEmitsCanceled ==
  (w_pc \in Ended /\ w_polled_true) =>
    /\ \E k \in 1..Len(w_emitted) : w_emitted[k] = "canceled"
    /\ \A k \in 1..Len(w_emitted) : w_emitted[k] # "finished"

\* C18: when the user has cancelled while run was executing, self._cancel is
\* True when run has ended.
C18_CancelFlagSetDuringRun ==
  (w_requested /\ w_pc \in Ended) => w_cancel

\* row j has no signal_id or no logic_expr after normalisation
SkippedRow(j) ==
  norm_id(c_rows[j].signal_id) = <<>> \/ norm_expr(c_rows[j].logic_expr) = <<>>

\* C19: a row whose normalised signal_id or logic_expr is empty has no call
\* on the repository and exactly one warning, which names its number; it is
\* not counted; and an import that is not cancelled passes every row.
C19_EmptyRowSkipped ==
  /\ \A j \in 1..c_i :
       SkippedRow(j) =>
         /\ \A k \in 1..Len(c_calls) : c_calls[k].row # j
         /\ Cardinality({k \in 1..Len(c_warnings) : c_warnings[k].row = j}) = 1
  /\ c_count <= Cardinality({j \in 1..c_i : ~SkippedRow(j)})
  /\ (c_pc = "done" /\ ~c_cancelled) => c_i = Len(c_rows)

\* an import has returned that skipped its first row and saved its second
C19_Witness ==
  /\ c_pc = "done"
  /\ Len(c_rows) = 2
  /\ SkippedRow(1) /\ ~SkippedRow(2)
  /\ c_count = 1
  /\ Len(c_warnings) = 1 /\ c_warnings[1].row = 1
  /\ Len(c_calls) = 2 /\ c_calls[1].row = 2

EquationThenContinuations ==
  /\ Len(RawLines) >= 2
  /\ IsEquationLine(RawLines[1])
  /\ \A j \in 2..Len(RawLines) : IsContinuationLine(RawLines[j])

\* C21: when the text read is an equation-line followed by continuation-lines
\* only, process leaves logic_blocks with the one entry of the equation-line,
\* the id of the line mapped to the expression of the line: no
\* continuation-line is appended to an expression.
C21_ContinuationAfterEquationDiscarded ==
  (pc = "done" /\ run = 1 /\ EquationThenContinuations) =>
    LET m == eq_re(NormalizedLine(RawLines[1]))
        X == normalize_id(m.id)
    IN  /\ DOMAIN logic_blocks = {X}
        /\ logic_blocks[X] = norm_ops(strip(m.rest))

\* the k-th line of the text read is a header-line that follows the block of
\* the header-line at line 1, and every other line is a continuation-line
SecondHeaderAt(k) ==
  /\ k >= 3 /\ k <= Len(RawLines)
  /\ IsHeaderLine(RawLines[1])
  /\ IsHeaderLine(RawLines[k])
  /\ LineId(RawLines[k]) # LineId(RawLines[1])
  /\ \A j \in 2..Len(RawLines) : j # k => IsContinuationLine(RawLines[j])

\* C22: when the text read is a header-line, one or more continuation-lines
\* and the header-line of another id, process leaves the continuation-lines
\* between the two header-lines, joined by one space, as the expression of the
\* id of the first header-line, and none of them in the expression of the id
\* of the second; the buffer is empty and paren_balance is 0 at the return.
C22_HeaderCommitsPreviousBlock ==
  (pc = "done" /\ run = 1) =>
    /\ buf = <<>> /\ paren_balance = 0
    /\ \A k \in 1..Len(RawLines) :
         SecondHeaderAt(k) =>
           LET q1   == LineId(RawLines[1])
               q2   == LineId(RawLines[k])
               expr == norm_ops(join(<<" ">>,
                         [j \in 1..(k - 2) |-> NormalizedLine(RawLines[j + 1])]))
           IN  /\ q1 \in DOMAIN logic_blocks
               /\ logic_blocks[q1] = expr
               /\ q2 \in DOMAIN logic_blocks =>
                    ~Contains(logic_blocks[q2], NormalizedLine(RawLines[2]))

\* a line that is not blank and matches none of eq_re, qhead_re, expr_re
OtherText(l) ==
  /\ NormalizedLine(l) # <<>>
  /\ ~IsEquationLine(l) /\ ~IsHeaderLine(l)
  /\ ~expr_re(NormalizedLine(l))

\* C23: when the text read is a header-line followed by one line that matches
\* no pattern, process returns the one record of the header-line, with the
\* description of the header-line, and no expression: the second line
\* contributes to no record and to no expression.
C23_OtherTextContributesNothing ==
  (pc = "done" /\ run = 1 /\ Len(RawLines) = 2
     /\ IsHeaderLine(RawLines[1]) /\ OtherText(RawLines[2])) =>
    /\ signals = <<SignalInfo(LineId(RawLines[1]), LineDesc(RawLines[1]))>>
    /\ logic_blocks = <<>>

\* the characters of the model that upper() changes
LowerChars == {"v", "vT"}

\* C24: every record process returns has a non-empty id without a lower-case
\* character, the type OUTPUT, a non-empty description, empty from_box,
\* via_boxes and to_box, and its id as program_address; the record of an id
\* named by an equation-line alone has the placeholder as description.
C24_RecordShape ==
  pc = "done" =>
    \A k \in 1..Len(signals) :
      LET s == signals[k]
      IN  /\ s.signal_id # <<>>
          /\ \A j \in 1..Len(s.signal_id) : s.signal_id[j] \notin LowerChars
          /\ s.signal_type = "OUTPUT"
          /\ s.description # <<>>
          /\ s.from_box = <<>> /\ s.via_boxes = <<>> /\ s.to_box = <<>>
          /\ s.program_address = s.signal_id
          /\ (\A j \in 1..Len(lines) :
                normalize_id(qhead_re(lines[j]).id) = s.signal_id => eq_re(lines[j]).ok)
               => s.description = Placeholder

\* process has returned the record of a header-line whose id reached the
\* loop with a lower-case character
C24_Witness ==
  /\ pc = "done"
  /\ Len(signals) = 1
  /\ signals[1].signal_id = <<"Q", "V">>
  /\ signals[1].description # Placeholder
  /\ Len(lines) = 1
  /\ qhead_re(lines[1]).id = <<"Q", "v">>

\* the text read is one line that is an id token and nothing else
IdTokenAlone ==
  /\ Len(RawLines) = 1
  /\ LET l == NormalizedLine(RawLines[1])
     IN  /\ Len(l) >= 2
         /\ l[1] = "Q"
         /\ \A k \in 2..Len(l) : l[k] \in AlnumChars

\* C25: when the text read is one line that consists of an id token only,
\* process returns one record whose id is the whole token and whose
\* description is the placeholder.
C25_BareHeaderRegistered ==
  (pc = "done" /\ run = 1 /\ IdTokenAlone) =>
    signals = <<SignalInfo(normalize_id(NormalizedLine(RawLines[1])), Placeholder)>>

\* C26: in every call of process that got past the import, progress_cb has
\* been called with 1, 2, ..., k for the k pages read so far, cancel_cb has
\* been called once for each of these pages and once more when it returned
\* True; after it returned True the page loop is over, and when the call
\* returns the records, logic_blocks and warnings are those of the whole loop
\* and the final flush over the text of the k pages.
C26_PollAndProgressPerPage ==
  pc \in {"ocr", "parse", "lines", "done"} =>
    /\ page_i = Len(texts)
    /\ texts = SubSeq(pages, 1, page_i)
    /\ progress = [i \in 1..page_i |-> i]
    /\ polls = page_i + (IF cancelled THEN 1 ELSE 0)
    /\ cancelled => (pc # "ocr" /\ page_i < Len(pages))
    /\ pc = "done" =>
         LET ref == run_lines(fresh(start_blocks, start_warnings), lines_of(texts))
         IN  /\ signals = ref.signals
             /\ logic_blocks = ref.logic_blocks
             /\ warnings = ref.warnings

\* a call that read one page, was cancelled at the check before the second
\* page and returned the expression of the first page
C26_Witness ==
  /\ pc = "done" /\ cancelled
  /\ Len(pages) = 2
  /\ progress = <<1>>
  /\ polls = 2
  /\ texts = <<pages[1]>>
  /\ DOMAIN logic_blocks # {}

\* C27: when ImportPDFWorker.run has ended and the user's last answer to the
\* question asked after a fatal error was to abort, run has emitted error and
\* has not emitted finished.
C27_AbortEndsWithError ==
  (w_kind = "pdf" /\ w_pc \in Ended /\ w_decision = "no") =>
    /\ \E k \in 1..Len(w_emitted) : w_emitted[k] = "error"
    /\ \A k \in 1..Len(w_emitted) : w_emitted[k] # "finished"

\* the text read is one header-line, taken as the OCR gave it
OneHeaderLine ==
  /\ Len(RawLines) = 1
  /\ ~eq_re(norm_line(RawLines[1])).ok
  /\ qhead_re(norm_line(RawLines[1])).ok

\* C28: when the text read is one header-line, the description of the record
\* process returns is the trailing text of the line after norm_line, without
\* the replacement of operators.
C28_DescriptionKeepsOperators ==
  (pc = "done" /\ run = 1 /\ OneHeaderLine) =>
    /\ Len(signals) = 1
    /\ signals[1].description = norm_line(qhead_re(norm_line(RawLines[1])).rest)

\* row j has a call of op on the repository that returned
Stored(j, op) ==
  \E k \in 1..Len(c_calls) :
    c_calls[k].row = j /\ c_calls[k].op = op /\ c_calls[k].ok

\* C29: for every row import_file has taken, either add_signal and
\* add_logic_equation have both stored the row and no warning names it, or
\* nothing of the row is stored and a warning names it; count is the number
\* of rows with both stored.
C29_RowAtomic ==
  /\ \A j \in 1..c_i :
       \/ /\ Stored(j, "add_signal") /\ Stored(j, "add_logic_equation")
          /\ \A k \in 1..Len(c_warnings) : c_warnings[k].row # j
       \/ /\ ~Stored(j, "add_signal") /\ ~Stored(j, "add_logic_equation")
          /\ \E k \in 1..Len(c_warnings) : c_warnings[k].row = j
  /\ c_count = Cardinality({j \in 1..c_i :
                  Stored(j, "add_signal") /\ Stored(j, "add_logic_equation")})

\* C30: every signal a caller has stored with add_signal is what get_signal
\* returns for its id, whatever constructions of SQLiteSignalRepository on
\* the file have followed.
C30_OpenKeepsStoredSignals ==
  \A sid \in DOMAIN r_given : get_signal(r_db, sid) = r_given[sid]

=============================================================================
